---- MODULE Spec2Model ----
(***************************************************************************)
(* Model of src/app.py, the accounts-payable aging dashboard.              *)
(*                                                                         *)
(* Two views of the program are modelled:                                  *)
(*   - the page script (one top-to-bottom run per render): the data        *)
(*     loaders, the KPI row, the charts, the detail table and the two CSV  *)
(*     downloads, as the actions LoadData and RenderPage;                  *)
(*   - the memoized run_query with its connection pool, called from        *)
(*     concurrent viewer sessions, as the actions of QuerySpec.            *)
(*                                                                         *)
(* Amounts are fixed-point numbers: an integer v stands for v / Scale, so  *)
(* that int() truncation (int0) is not the identity.                       *)
(***************************************************************************)
EXTENDS Integers, Sequences, FiniteSets, TLC

VARIABLES
    config,      \* DB_HOST and DB_NAME as read from the secrets (app.py:37-41)
    pool,        \* the module-level connection pool (app.py:118-131)
    attempted,   \* TRUE once pool.get_connection() has been called
    resumen,     \* the summary frame of the current render (app.py:232)
    detalle,     \* the detail frame of the current render (app.py:233)
    sel,         \* the bucket selection of the detail filter
    ui,          \* what the current render has put on the page
    now,         \* wall clock, in seconds
    cache,       \* st.cache_data store of run_query: key -> entry
    inflight,    \* run_query bodies in execution: key -> number of sessions
    lastRet      \* the outcome of the latest run_query call that ended

vars == <<config, pool, attempted, resumen, detalle, sel, ui, now, cache, inflight, lastRet>>

(***************************************************************************)
(* Bounds of the model.                                                    *)
(***************************************************************************)
Scale == 2          \* amounts are counted in units of 1/Scale
MaxRows == 2        \* rows of an enumerated summary frame
MaxDetRows == 2     \* rows of an enumerated detail frame
ExtraProviders == 1 \* providers beyond the top-N cut in the large frames
NumSessions == 6    \* viewer sessions that may call run_query at once
MaxClock == 600     \* the clock stops here, in seconds

(***************************************************************************)
(* Generic helpers.                                                        *)
(***************************************************************************)
RECURSIVE SeqSum(_)
SeqSum(s) == IF s = <<>> THEN 0 ELSE Head(s) + SeqSum(Tail(s))

SeqsUpTo(S, n) == UNION {[1..k -> S] : k \in 0..n}

Range(s) == {s[i] : i \in DOMAIN s}

Abs(x) == IF x < 0 THEN -x ELSE x

(***************************************************************************)
(* Data frames.  A cell is a number or NaN/None; a frame has a set of      *)
(* columns and a sequence of rows.                                         *)
(***************************************************************************)
Num(v) == [isna |-> FALSE, v |-> v]
NaN == [isna |-> TRUE, v |-> 0]

\* pd.DataFrame(): no columns, no rows (app.py:136)
EmptyDataFrame == [columns |-> {}, rows |-> <<>>]

\* DataFrame.empty
IsEmpty(df) == df.rows = <<>> \/ df.columns = {}

\* the bucket columns, in the order of buckets_order (app.py:313)
buckets_order == <<"A Vencer", "0-15", "16-60", "61-90", "91-120", "+120", "Sin Vto">>

\* the five overdue buckets (app.py:255-259)
OverdueCols == <<"0-15", "16-60", "61-90", "91-120", "+120">>

\* the columns summed for the KPI row (app.py:251)
KpiCols == Range(buckets_order) \cup {"Total", "Total_MM"}

\* the columns projected by load_resumen (app.py:149-153), as far as used
ResumenColumns == KpiCols \cup {"Proveedor_Nombre"}

\* the columns projected by load_detalle (app.py:167-170), as far as used
DetalleColumns == {"Nro_Documento", "Fecha_Factura", "VtoSAP", "ImpMonLoc", "bucket"}

\* int0 (app.py:235-239): int() truncates toward zero; an exception gives 0
int0(x) ==
    IF x.isna THEN 0
    ELSE IF x.v >= 0 THEN x.v \div Scale ELSE -((-x.v) \div Scale)

\* a sum that a single missing cell turns into NaN, shown as 0 by int0
RECURSIVE ColSum_noskip(_, _)
ColSum_noskip(rows, c) ==
    IF \E i \in DOMAIN rows : rows[i][c].isna THEN 0
    ELSE IF rows = <<>> THEN 0
    ELSE Head(rows)[c].v + ColSum_noskip(Tail(rows), c)

\* Series.sum(): NaN cells are skipped
RECURSIVE ColSum(_, _)
ColSum(rows, c) ==
    IF rows = <<>> THEN 0
    ELSE (IF Head(rows)[c].isna THEN 0 ELSE Head(rows)[c].v) + ColSum(Tail(rows), c)

\* a column read from SQL is numeric unless every cell of it is None
IsNumericCol(df, c) == \E i \in DOMAIN df.rows : ~df.rows[i][c].isna

\* resumen[[...]].sum(numeric_only=True) (app.py:250-252): selecting a column
\* the frame lacks raises KeyError; non-numeric columns are dropped
sums(df) ==
    IF ~(KpiCols \subseteq df.columns)
    THEN [err |-> "KeyError", cols |-> {}, val |-> [c \in {} |-> 0]]
    ELSE LET num == {c \in KpiCols : IsNumericCol(df, c)}
         IN [err |-> "none", cols |-> num, val |-> [c \in num |-> ColSum(df.rows, c)]]

\* sums.get(k, 0)
SumsGet(s, k) == IF k \in s.cols THEN s.val[k] ELSE 0

(***************************************************************************)
(* KPI row (app.py:244-303).                                               *)
(***************************************************************************)
\* the overdue total with the last overdue bucket left out
overdue_total_without_120(s) ==
    int0(Num(SumsGet(s, "0-15") + SumsGet(s, "16-60") + SumsGet(s, "61-90")
             + SumsGet(s, "91-120")))

\* overdue_total (app.py:254-260); the sum of float sums is never NaN
overdue_total(s) ==
    int0(Num(SumsGet(s, "0-15") + SumsGet(s, "16-60") + SumsGet(s, "61-90")
             + SumsGet(s, "91-120") + SumsGet(s, "+120")))

avencer_total(s) == int0(Num(SumsGet(s, "A Vencer")))
sinvto_total(s) == int0(Num(SumsGet(s, "Sin Vto")))
total(s) == int0(Num(SumsGet(s, "Total")))
total_mm(s) == int0(Num(SumsGet(s, "Total_MM")))

\* Python's a / b: ZeroDivisionError when b is 0, else the exact quotient
TrueDiv(a, b) ==
    IF b = 0 THEN [err |-> "ZeroDivisionError", num |-> 0, den |-> 1]
    ELSE [err |-> "none", num |-> a, den |-> b]

\* the percentage without the guard on a zero total
porc_overdue_unguarded(overdue, tot) ==
    LET q == TrueDiv(overdue, tot) IN [q EXCEPT !.num = q.num * 100]

\* porc_overdue (app.py:266): (overdue_total / total * 100) if total else 0
porc_overdue(overdue, tot) ==
    IF tot # 0
    THEN LET q == TrueDiv(overdue, tot) IN [q EXCEPT !.num = q.num * 100]
    ELSE [err |-> "none", num |-> 0, den |-> 1]

\* round(porc_overdue, 1), in tenths (ties to even)
Round1(q) ==
    LET n == IF q.den < 0 THEN -(q.num * 10) ELSE q.num * 10
        d == Abs(q.den)
        fl == n \div d
        r2 == 2 * (n - fl * d)
    IN IF r2 < d THEN fl
       ELSE IF r2 > d THEN fl + 1
       ELSE IF fl % 2 = 0 THEN fl ELSE fl + 1

\* the document count without the fallback to the summary rows
doc_count_detail_only(res, det) == Len(det.rows)

\* doc_count (app.py:267)
doc_count(res, det) == IF ~IsEmpty(det) THEN Len(det.rows) ELSE Len(res.rows)

\* buckets (app.py:268-271)
buckets(s) == [k \in Range(buckets_order) |-> int0(Num(SumsGet(s, k)))]

\* top_bucket (app.py:272): max() keeps the first key holding the maximum
top_bucket(b) ==
    LET i == CHOOSE i \in DOMAIN buckets_order :
                 /\ \A j \in DOMAIN buckets_order : b[buckets_order[j]] <= b[buckets_order[i]]
                 /\ \A j \in 1..(i - 1) : b[buckets_order[j]] < b[buckets_order[i]]
    IN buckets_order[i]

NoKpi ==
    [shown |-> FALSE, err |-> "none", overdue_total |-> 0, avencer_total |-> 0,
     sinvto_total |-> 0, total |-> 0, total_mm |-> 0,
     porc_overdue |-> [err |-> "none", num |-> 0, den |-> 1],
     doc_count |-> 0, top_bucket |-> "", values |-> <<>>]

\* the whole KPI row: ten dashes for an empty summary, else the ten metrics
KpiRow(res, det) ==
    IF IsEmpty(res) THEN NoKpi
    ELSE LET s == sums(res) IN
         IF s.err # "none" THEN [NoKpi EXCEPT !.err = s.err]
         ELSE LET porc == porc_overdue(overdue_total(s), total(s))
                  b == buckets(s)
              IN IF porc.err # "none" THEN [NoKpi EXCEPT !.err = porc.err]
                 ELSE [shown |-> TRUE, err |-> "none",
                       overdue_total |-> overdue_total(s),
                       avencer_total |-> avencer_total(s),
                       sinvto_total |-> sinvto_total(s),
                       total |-> total(s),
                       total_mm |-> total_mm(s),
                       porc_overdue |-> porc,
                       doc_count |-> doc_count(res, det),
                       top_bucket |-> top_bucket(b),
                       values |-> <<avencer_total(s), b["0-15"], b["16-60"], b["61-90"],
                                    b["91-120"], b["+120"], sinvto_total(s), total_mm(s),
                                    Round1(porc), doc_count(res, det)>>]

(***************************************************************************)
(* Visuals (app.py:310-378).                                               *)
(***************************************************************************)
\* buck_vals (app.py:314): the buckets the frame has, each int0 of its sum
buck_vals(res) ==
    [b \in {c \in Range(buckets_order) : c \in res.columns} |->
        int0(Num(ColSum(res.rows, b)))]

\* buck_vals.get(k, 0)
BuckGet(bv, k) == IF k \in DOMAIN bv THEN bv[k] ELSE 0

\* buck_df (app.py:316-322): one bar per bucket present, in buckets_order
buck_df(res) ==
    LET bv == buck_vals(res)
        F[i \in 0..Len(buckets_order)] ==
            IF i = 0 THEN <<>>
            ELSE IF buckets_order[i] \in DOMAIN bv
                 THEN Append(F[i - 1], [Bucket |-> buckets_order[i], Importe |-> bv[buckets_order[i]]])
                 ELSE F[i - 1]
    IN F[Len(buckets_order)]

\* pie_df (app.py:338-352); int0 of a sum of ints is that sum
pie_df(res) ==
    LET bv == buck_vals(res) IN
    [Vencido |-> BuckGet(bv, "0-15") + BuckGet(bv, "16-60") + BuckGet(bv, "61-90")
                 + BuckGet(bv, "91-120") + BuckGet(bv, "+120"),
     AVencer |-> BuckGet(bv, "A Vencer"),
     SinVto |-> BuckGet(bv, "Sin Vto")]

TopN == 20

\* the rows of one provider, in frame order
RECURSIVE RowsOf(_, _)
RowsOf(rows, name) ==
    IF rows = <<>> THEN <<>>
    ELSE IF ~Head(rows)["Proveedor_Nombre"].isna /\ Head(rows)["Proveedor_Nombre"].v = name
         THEN <<Head(rows)>> \o RowsOf(Tail(rows), name)
         ELSE RowsOf(Tail(rows), name)

\* groupby("Proveedor_Nombre", as_index=False)["Total"].sum() (app.py:366-367):
\* one row per provider name, names ascending, rows without a name dropped
RECURSIVE GroupSeq(_, _)
GroupSeq(rows, names) ==
    IF names = {} THEN <<>>
    ELSE LET n == CHOOSE x \in names : \A y \in names : x <= y
         IN <<[Proveedor_Nombre |-> n, Total |-> ColSum(RowsOf(rows, n), "Total")]>>
            \o GroupSeq(rows, names \ {n})

groupby_sum(res) ==
    GroupSeq(res.rows,
             {res.rows[i]["Proveedor_Nombre"].v :
                 i \in {j \in DOMAIN res.rows : ~res.rows[j]["Proveedor_Nombre"].isna}})

\* sort_values("Total", ascending=False) (app.py:368).  The sort kind does not
\* fix the order of equal totals: tie says on which side of its equals a row lands.
RECURSIVE InsertDesc(_, _, _)
InsertDesc(sorted, g, tie) ==
    IF sorted = <<>> THEN <<g>>
    ELSE IF Head(sorted).Total > g.Total \/ (Head(sorted).Total = g.Total /\ tie = "after")
         THEN <<Head(sorted)>> \o InsertDesc(Tail(sorted), g, tie)
         ELSE <<g>> \o sorted

RECURSIVE sort_values_desc(_, _)
sort_values_desc(gs, tie) ==
    IF gs = <<>> THEN <<>>
    ELSE InsertDesc(sort_values_desc(SubSeq(gs, 1, Len(gs) - 1), tie), gs[Len(gs)], tie)

\* .head(20) (app.py:369)
head(s, n) == SubSeq(s, 1, IF Len(s) < n THEN Len(s) ELSE n)

\* top (app.py:363-370): the treemap shows each row's Total as it is
top(res, tie) ==
    IF {"Proveedor_Nombre", "Total"} \subseteq res.columns
    THEN head(sort_values_desc(groupby_sum(res), tie), TopN)
    ELSE <<>>

(***************************************************************************)
(* Detail table and downloads (app.py:380-408).                            *)
(***************************************************************************)
\* a date cell: None, a date v, or a date beyond the datetime64[ns] range
Date(v) == [isna |-> FALSE, v |-> v, oob |-> FALSE]
DateOutOfBounds(v) == [isna |-> FALSE, v |-> v, oob |-> TRUE]
NaT == [isna |-> TRUE, v |-> 0, oob |-> FALSE]

\* pd.to_datetime(x, errors="coerce").dt.date (app.py:385-386)
to_datetime_coerce(d) == IF d.isna \/ d.oob THEN NaT ELSE d

\* the bucket/status filter of the detail rows; "unset" is no selection
bucket_filter(df, s) ==
    IF s \in {"(all)", "unset"} THEN df
    ELSE [df EXCEPT !.rows = SelectSeq(df.rows, LAMBDA r : r["bucket"] = s)]

\* det["Fecha_Factura"] = ..., det["VtoSAP"] = ... (app.py:384-386)
coerce_dates(df) ==
    [df EXCEPT !.rows =
        [i \in DOMAIN df.rows |->
            [df.rows[i] EXCEPT !["Fecha_Factura"] = to_datetime_coerce(@),
                               !["VtoSAP"] = to_datetime_coerce(@)]]]

\* row a sorts before row b: VtoSAP ascending, then ImpMonLoc descending,
\* missing values last
DetBefore(a, b) ==
    LET va == a["VtoSAP"]
        vb == b["VtoSAP"]
        ia == a["ImpMonLoc"]
        ib == b["ImpMonLoc"]
        vtoLess == ~va.isna /\ (vb.isna \/ va.v < vb.v)
        vtoEq == (va.isna /\ vb.isna) \/ (~va.isna /\ ~vb.isna /\ va.v = vb.v)
        impLess == ~ia.isna /\ (ib.isna \/ ia.v > ib.v)
    IN vtoLess \/ (vtoEq /\ impLess)

RECURSIVE InsertDet(_, _)
InsertDet(sorted, r) ==
    IF sorted = <<>> THEN <<r>>
    ELSE IF DetBefore(r, Head(sorted)) THEN <<r>> \o sorted
         ELSE <<Head(sorted)>> \o InsertDet(Tail(sorted), r)

\* det.sort_values(by=["VtoSAP", "ImpMonLoc"], ascending=[True, False]) (app.py:387)
RECURSIVE SortDetRows(_)
SortDetRows(rows) ==
    IF rows = <<>> THEN <<>>
    ELSE InsertDet(SortDetRows(SubSeq(rows, 1, Len(rows) - 1)), rows[Len(rows)])

sort_det(df) == [df EXCEPT !.rows = SortDetRows(df.rows)]

\* det (app.py:384-387), with the bucket filter applied to the copy
det(detalle_df, s) == sort_det(coerce_dates(bucket_filter(detalle_df, s)))

\* DataFrame.to_csv(index=False): a header and one line per row; a missing
\* value is written as an empty field, a bucket label as it is
CsvField(c, x) ==
    IF c = "bucket" THEN [empty |-> FALSE, text |-> <<x>>]
    ELSE IF x.isna THEN [empty |-> TRUE, text |-> <<>>]
    ELSE [empty |-> FALSE, text |-> <<x.v>>]

to_csv(df) ==
    [header |-> df.columns,
     lines |-> [i \in DOMAIN df.rows |-> [c \in df.columns |-> CsvField(c, df.rows[i][c])]]]

NoDownload == [offered |-> FALSE, csv |-> [header |-> {}, lines |-> <<>>]]

\* the summary download (app.py:391-399): inside the branch of a non-empty detalle
download_resumen(res, detalle_df) ==
    IF ~IsEmpty(detalle_df) /\ ~IsEmpty(res)
    THEN [offered |-> TRUE, csv |-> to_csv(res)]
    ELSE NoDownload

\* the detail download made of the frame as loaded
download_detalle_as_loaded(detalle_df, d) ==
    IF ~IsEmpty(detalle_df)
    THEN [offered |-> TRUE, csv |-> to_csv(detalle_df)]
    ELSE NoDownload

\* the detail download (app.py:400-408)
download_detalle(detalle_df, d) ==
    IF ~IsEmpty(detalle_df) /\ ~IsEmpty(d)
    THEN [offered |-> TRUE, csv |-> to_csv(d)]
    ELSE NoDownload

\* what st.dataframe(det) shows (app.py:381-388); nothing for an empty detalle
detail_table(detalle_df, d) ==
    IF IsEmpty(detalle_df) THEN [shown |-> FALSE, frame |-> EmptyDataFrame]
    ELSE [shown |-> TRUE, frame |-> d]

(***************************************************************************)
(* Connection pool and run_query (app.py:118-142), data loaders            *)
(* (app.py:147-203).                                                       *)
(***************************************************************************)
pool_size == 5
ttl == 300

\* pool = None unless DB_HOST and DB_NAME are set (app.py:118-131)
MakePool(cfg) == [created |-> (cfg.DB_HOST # "" /\ cfg.DB_NAME # ""), in_use |-> 0]

\* run_query without the test for a missing pool
run_query_nocheck(p, answer) == [df |-> answer, connected |-> TRUE]

\* the value run_query returns when its body runs to the end (app.py:135-140):
\* an empty frame without a pool, else what the database answers
run_query(p, answer) ==
    IF ~p.created THEN [df |-> EmptyDataFrame, connected |-> FALSE]
    ELSE [df |-> answer, connected |-> TRUE]

\* load_sociedades (app.py:182-185)
load_sociedades(df) ==
    IF ~IsEmpty(df)
    THEN IF "Sociedad" \in df.columns
         THEN [err |-> "none",
               list |-> SelectSeq([i \in DOMAIN df.rows |-> df.rows[i]["Sociedad"]],
                                  LAMBDA x : ~x.isna)]
         ELSE [err |-> "KeyError", list |-> <<>>]
    ELSE [err |-> "none", list |-> <<>>]

\* load_proveedores (app.py:187-203)
load_proveedores(df) ==
    IF ~IsEmpty(df) THEN df
    ELSE [columns |-> {"Proveedor", "Proveedor_Nombre"}, rows |-> <<>>]

(***************************************************************************)
(* The page script as one render.                                          *)
(***************************************************************************)
BlankUi ==
    [loaded |-> FALSE, sociedades_df |-> EmptyDataFrame, prov_df |-> EmptyDataFrame,
     rendered |-> FALSE, error |-> "none", warning |-> FALSE, sociedades |-> <<>>,
     prov_labels |-> 0, kpi |-> NoKpi, info |-> FALSE, bar |-> <<>>,
     pie |-> [Vencido |-> 0, AVencer |-> 0, SinVto |-> 0], top |-> <<>>,
     no_detail_caption |-> FALSE,
     table |-> [shown |-> FALSE, frame |-> EmptyDataFrame],
     dl_resumen |-> NoDownload, dl_detalle |-> NoDownload]

\* app.py:208-408 for the frames the loaders returned; an exception ends the script
Page(p, soc_df, prov_df, res, detalle_df, s, tie) ==
    LET socs == load_sociedades(soc_df)
        k == KpiRow(res, detalle_df)
        d == det(detalle_df, s)
    IN IF socs.err # "none"
       THEN [BlankUi EXCEPT !.rendered = TRUE, !.error = socs.err, !.warning = ~p.created]
       ELSE IF k.err # "none"
       THEN [BlankUi EXCEPT !.rendered = TRUE, !.error = k.err, !.warning = ~p.created,
                            !.sociedades = socs.list,
                            !.prov_labels = 1 + Len(load_proveedores(prov_df).rows)]
       ELSE [loaded |-> TRUE, sociedades_df |-> soc_df, prov_df |-> prov_df,
             rendered |-> TRUE, error |-> "none", warning |-> ~p.created,
             sociedades |-> socs.list,
             prov_labels |-> 1 + Len(load_proveedores(prov_df).rows),
             kpi |-> k,
             info |-> IsEmpty(res),
             bar |-> IF IsEmpty(res) THEN <<>> ELSE buck_df(res),
             pie |-> IF IsEmpty(res) THEN BlankUi.pie ELSE pie_df(res),
             top |-> IF IsEmpty(res) THEN <<>> ELSE top(res, tie),
             no_detail_caption |-> IsEmpty(detalle_df),
             table |-> detail_table(detalle_df, d),
             dl_resumen |-> download_resumen(res, detalle_df),
             dl_detalle |-> download_detalle(detalle_df, d)]

(***************************************************************************)
(* What the database may answer to the queries of one render.              *)
(***************************************************************************)
ProviderNames == {1, 2}

\* a bucket cell together with the Total of its row: a missing bucket, Total
\* equal to the sum of the buckets, Total off by one unit, or Total missing
CellChoices ==
    {[cell |-> NaN, tot |-> Num(0)],
     [cell |-> Num(3), tot |-> Num(3)],
     [cell |-> Num(2), tot |-> Num(2)],
     [cell |-> Num(-1), tot |-> Num(0)],
     [cell |-> Num(2), tot |-> NaN]}

ResumenRow(name, b, ch) ==
    [c \in ResumenColumns |->
        IF c = "Proveedor_Nombre" THEN Num(name)
        ELSE IF c = b THEN ch.cell
        ELSE IF c \in {"Total", "Total_MM"} THEN ch.tot
        ELSE Num(0)]

\* every bucket for the first provider, one bucket for the others
ResumenRows ==
    {ResumenRow(1, b, ch) : b \in Range(buckets_order),
                            ch \in {c \in CellChoices : c.tot # NaN}}
    \cup {ResumenRow(n, "0-15", ch) : n \in ProviderNames, ch \in CellChoices}

ResumenFrame(r) == [columns |-> ResumenColumns, rows |-> r]

\* frames of many providers, one row each, for the top-N cut
PatternTotal(pat, i, n) ==
    IF pat = "asc" THEN i * Scale
    ELSE IF pat = "desc" THEN (n + 1 - i) * Scale
    ELSE IF pat = "alt" THEN (IF i % 2 = 0 THEN -i ELSE i) * Scale
    ELSE 0

ProviderRow(name, tot) ==
    [c \in ResumenColumns |->
        IF c = "Proveedor_Nombre" THEN Num(name)
        ELSE IF c \in {"Total", "Total_MM", "0-15"} THEN Num(tot)
        ELSE Num(0)]

LargeResumenFrames ==
    {[columns |-> ResumenColumns,
      rows |-> [i \in 1..n |-> ProviderRow(i, PatternTotal(pat, i, n))]] :
        n \in {TopN, TopN + ExtraProviders}, pat \in {"asc", "desc", "alt", "flat"}}
    \cup
    {[columns |-> ResumenColumns,
      rows |-> [i \in 1..4 |-> ProviderRow(i, <<100, -50, 30, 0>>[i] * Scale)]]}

DetRow(doc, a) ==
    [c \in DetalleColumns |->
        IF c = "Nro_Documento" THEN Num(doc)
        ELSE IF c = "Fecha_Factura" THEN Date(1)
        ELSE IF c = "VtoSAP" THEN a.due.vto
        ELSE IF c = "ImpMonLoc" THEN Num(a.due.imp)
        ELSE a.bucket]

\* due date and amount of a document
DueChoices ==
    {[vto |-> NaT, imp |-> 1], [vto |-> Date(1), imp |-> 1],
     [vto |-> Date(1), imp |-> 2], [vto |-> DateOutOfBounds(9), imp |-> 2]}

\* every due date in three of the buckets, one due date in the others
DetAttrs ==
    [bucket : {"A Vencer", "0-15", "120"}, due : DueChoices]
    \cup [bucket : Range(buckets_order), due : {[vto |-> Date(1), imp |-> 1]}]

DetalleFrame(a) ==
    [columns |-> DetalleColumns, rows |-> [i \in DOMAIN a |-> DetRow(i, a[i])]]

\* a detail frame of n documents
PlainDetalle(n) ==
    [columns |-> DetalleColumns,
     rows |-> [i \in 1..n |->
                 DetRow(i, [bucket |-> buckets_order[1 + (i % Len(buckets_order))],
                            due |-> [vto |-> Date(i), imp |-> 1]])]]

Selections == {"unset", "(all)"} \cup Range(buckets_order)

\* the detail sets rendered beside the enumerated summary sets
PlainDetalles == {PlainDetalle(0), PlainDetalle(3)}

\* the summary set rendered beside the enumerated detail sets
PlainResumen ==
    ResumenFrame(<<ResumenRow(1, "0-15", [cell |-> Num(3), tot |-> Num(3)])>>)

\* the answers to the two sidebar queries, given the summary view
SociedadesAnswer(res) ==
    [columns |-> {"Sociedad"},
     rows |-> IF res.rows = <<>> THEN <<>> ELSE <<[Sociedad |-> Num(1)]>>]

ProveedoresAnswer(res) ==
    LET g == groupby_sum(res) IN
    [columns |-> {"Proveedor", "Proveedor_Nombre"},
     rows |-> [i \in DOMAIN g |->
                 [Proveedor |-> Num(g[i].Proveedor_Nombre),
                  Proveedor_Nombre |-> Num(g[i].Proveedor_Nombre)]]]

(***************************************************************************)
(* Initial state and the render actions.                                   *)
(***************************************************************************)
None == "None"

\* load_resumen (app.py:147-163): the query text and the parameter tuple
load_resumen(sociedad, proveedor) ==
    [sql |-> <<"FROM vista_aging_ap_resumen WHERE 1=1">>
             \o (IF sociedad # None THEN <<" AND Sociedad = %s">> ELSE <<>>)
             \o (IF proveedor # None THEN <<" AND Proveedor = %s">> ELSE <<>>),
     params |-> (IF sociedad # None THEN <<sociedad>> ELSE <<>>)
                \o (IF proveedor # None THEN <<proveedor>> ELSE <<>>)]

\* load_detalle (app.py:165-180)
load_detalle(sociedad, proveedor) ==
    [sql |-> <<"FROM vista_aging_ap_detalle WHERE 1=1">>
             \o (IF sociedad # None THEN <<" AND Sociedad = %s">> ELSE <<>>)
             \o (IF proveedor # None THEN <<" AND Proveedor = %s">> ELSE <<>>)
             \o <<" ORDER BY VtoSAP ASC, ImpMonLoc DESC">>,
     params |-> (IF sociedad # None THEN <<sociedad>> ELSE <<>>)
                \o (IF proveedor # None THEN <<proveedor>> ELSE <<>>)]

\* the run_query calls the sessions make
QueryKeys == {load_resumen("S1", None), load_resumen("S2", None)}

\* a cache keyed by the query text alone
CacheKey_sqlonly(k) == [sql |-> k.sql, params |-> <<>>]

\* st.cache_data (app.py:133) keys an entry by the arguments: sql and params
CacheKey(k) == [sql |-> k.sql, params |-> k.params]

CacheKeys == {CacheKey(k) : k \in QueryKeys}

NoSnapshot == [key |-> [sql |-> <<>>, params |-> <<>>], at |-> 0, df |-> "none"]
NoEntry == [present |-> FALSE, snapshot |-> NoSnapshot]

\* an entry is served for ttl seconds after it was stored (app.py:133)
Valid(e, t) == e.present /\ t < e.snapshot.at + ttl

NoRet == [kind |-> "none", key |-> NoSnapshot.key, snapshot |-> NoSnapshot, age |-> 0]

RECURSIVE SumOver(_, _)
SumOver(f, S) ==
    IF S = {} THEN 0
    ELSE LET x == CHOOSE y \in S : TRUE IN f[x] + SumOver(f, S \ {x})

\* the sessions inside the body of run_query
InFlight == SumOver(inflight, QueryKeys)

Init ==
    /\ config \in [DB_HOST : {"", "db.local"}, DB_NAME : {"", "sap"}]
    /\ pool = MakePool(config)
    /\ attempted = FALSE
    /\ resumen = EmptyDataFrame
    /\ detalle = EmptyDataFrame
    /\ sel = "unset"
    /\ ui = BlankUi
    /\ now = 0
    /\ cache = [ck \in CacheKeys |-> NoEntry]
    /\ inflight = [k \in QueryKeys |-> 0]
    /\ lastRet = NoRet

\* the orders sort_values may leave equal totals in
TieChoices(res) ==
    LET g == groupby_sum(res) IN
    IF \E i, j \in DOMAIN g : i # j /\ g[i].Total = g[j].Total
    THEN {"after", "before"} ELSE {"after"}

\* the script runs once from a blank page
Blank == ~ui.loaded /\ ~ui.rendered

\* the four queries of the script (app.py:216-233): the sidebar lists, then
\* resumen and detalle; views holds what the database would answer
LoadData(views, s) ==
    /\ Blank
    /\ LET q_soc == run_query(pool, SociedadesAnswer(views.resumen))
           q_prov == run_query(pool, ProveedoresAnswer(views.resumen))
           q_res == run_query(pool, views.resumen)
           q_det == run_query(pool, views.detalle)
       IN /\ resumen' = q_res.df
          /\ detalle' = q_det.df
          /\ sel' = s
          /\ attempted' = (attempted \/ q_soc.connected \/ q_prov.connected
                              \/ q_res.connected \/ q_det.connected)
          /\ ui' = [ui EXCEPT !.loaded = TRUE,
                              !.sociedades_df = q_soc.df,
                              !.prov_df = q_prov.df]
    /\ UNCHANGED <<config, pool, now, cache, inflight, lastRet>>

\* one of the queries raises: the exception is not caught and the script ends
\* there (app.py:137-142, 216)
LoadFails ==
    /\ Blank
    /\ pool.created
    /\ attempted' = TRUE
    /\ ui' = [ui EXCEPT !.rendered = TRUE, !.error = "DatabaseError"]
    /\ UNCHANGED <<config, pool, resumen, detalle, sel, now, cache, inflight, lastRet>>

\* the rest of the script, from the sidebar to the downloads (app.py:208-408)
RenderPage ==
    /\ ui.loaded
    /\ ~ui.rendered
    /\ \E tie \in TieChoices(resumen) :
          ui' = [Page(pool, ui.sociedades_df, ui.prov_df, resumen, detalle, sel, tie)
                    EXCEPT !.loaded = TRUE,
                           !.sociedades_df = ui.sociedades_df,
                           !.prov_df = ui.prov_df]
    /\ UNCHANGED <<config, pool, attempted, resumen, detalle, sel, now, cache, inflight, lastRet>>

\* what the views hold while the application runs without a pool
UnreadViews == [resumen |-> PlainResumen, detalle |-> PlainDetalle(1)]

\* the renders: summary sets of few rows, summary sets of many providers,
\* detail sets under every selection, and anything without a pool
Next ==
    \/ /\ Blank /\ pool.created
       /\ \E k \in 0..MaxRows : \E r \in [1..k -> ResumenRows] : \E d \in PlainDetalles :
             LoadData([resumen |-> ResumenFrame(r), detalle |-> d], "unset")
    \/ /\ Blank /\ pool.created
       /\ \E res \in LargeResumenFrames :
             LoadData([resumen |-> res, detalle |-> PlainDetalle(0)], "unset")
    \/ /\ Blank /\ pool.created
       /\ \E k \in 0..MaxDetRows : \E a \in [1..k -> DetAttrs] : \E s \in Selections :
             LoadData([resumen |-> PlainResumen, detalle |-> DetalleFrame(a)], s)
    \/ /\ Blank /\ ~pool.created
       /\ \E s \in Selections : LoadData(UnreadViews, s)
    \/ LoadFails
    \/ RenderPage

Spec == Init /\ [][Next]_vars

(***************************************************************************)
(* Properties of one render.                                               *)
(***************************************************************************)
CellValue(x) == IF x.isna THEN 0 ELSE x.v

\* the sum over all rows of the frame of the given columns, missing cells as 0
FrameSum(df, cols) ==
    SeqSum([i \in DOMAIN df.rows |->
               SeqSum([j \in DOMAIN cols |-> CellValue(df.rows[i][cols[j]])])])

\* y is the amount S (in units of 1/Scale) cut to a whole number toward zero
IsTruncationOf(y, S) ==
    /\ Abs(y) * Scale <= Abs(S)
    /\ Abs(S) - Abs(y) * Scale < Scale
    /\ (S >= 0 => y >= 0)
    /\ (S <= 0 => y <= 0)

RowConsistent(r) ==
    /\ ~r["Total"].isna
    /\ r["Total"].v = SeqSum([j \in DOMAIN buckets_order |-> CellValue(r[buckets_order[j]])])

AllRowsConsistent == \A i \in DOMAIN resumen.rows : RowConsistent(resumen.rows[i])

IsWhole(S) == S % Scale = 0

KpiShown == ui.rendered /\ ui.error = "none" /\ ui.kpi.shown

\* C1 as stated: for a non-empty summary set the overdue total equals the sum
\* of the five overdue bucket columns and, when every row's Total is the sum
\* of its seven buckets, equals total - (A Vencer total + Sin Vto total).
C1_AsStated ==
    (ui.rendered /\ ui.error = "none" /\ ~IsEmpty(resumen)) =>
        /\ ui.kpi.shown
        /\ ui.kpi.overdue_total * Scale = FrameSum(resumen, OverdueCols)
        /\ AllRowsConsistent =>
              ui.kpi.overdue_total
                  = ui.kpi.total - (ui.kpi.avencer_total + ui.kpi.sinvto_total)

\* C1 amended: the overdue total is the sum of the five overdue bucket columns
\* cut to a whole number toward zero; when every row's Total is the sum of its
\* seven buckets and the sums of the overdue buckets, of A Vencer, of Sin Vto
\* are whole numbers, it equals total - (A Vencer total + Sin Vto total).
C1_OverdueTotal ==
    (ui.rendered /\ ui.error = "none" /\ ~IsEmpty(resumen)) =>
        /\ ui.kpi.shown
        /\ IsTruncationOf(ui.kpi.overdue_total, FrameSum(resumen, OverdueCols))
        /\ (/\ AllRowsConsistent
            /\ IsWhole(FrameSum(resumen, OverdueCols))
            /\ IsWhole(FrameSum(resumen, <<"A Vencer">>))
            /\ IsWhole(FrameSum(resumen, <<"Sin Vto">>))) =>
              ui.kpi.overdue_total
                  = ui.kpi.total - (ui.kpi.avencer_total + ui.kpi.sinvto_total)

C1_Witness ==
    /\ KpiShown
    /\ Len(resumen.rows) >= 2
    /\ AllRowsConsistent
    /\ IsWhole(FrameSum(resumen, OverdueCols))
    /\ IsWhole(FrameSum(resumen, <<"A Vencer">>))
    /\ IsWhole(FrameSum(resumen, <<"Sin Vto">>))
    /\ ui.kpi.overdue_total > 0
    /\ ui.kpi.avencer_total + ui.kpi.sinvto_total > 0
    /\ \E i \in DOMAIN resumen.rows : CellValue(resumen.rows[i]["+120"]) > 0

\* C2: the overdue percentage is 0 when the total is 0, else overdue total /
\* total * 100, and computing it never raises ZeroDivisionError.
C2_PorcOverdue ==
    (ui.rendered /\ ~IsEmpty(resumen)) =>
        /\ ui.error # "ZeroDivisionError"
        /\ ui.kpi.shown =>
            /\ ui.kpi.total = 0 => ui.kpi.porc_overdue.num = 0
            /\ ui.kpi.total # 0 =>
                  ui.kpi.porc_overdue.num * ui.kpi.total
                      = ui.kpi.overdue_total * 100 * ui.kpi.porc_overdue.den

C2_Witness ==
    /\ KpiShown
    /\ ui.kpi.total = 0
    /\ ui.kpi.overdue_total # 0
    /\ ui.kpi.porc_overdue.num = 0

DocCountExpected ==
    IF detalle.rows # <<>> THEN Len(detalle.rows) ELSE Len(resumen.rows)

\* C3 as stated: on every render the document-count KPI is the number of
\* detail rows when detail is non-empty, else the number of summary rows.
C3_AsStated ==
    (ui.rendered /\ ui.error = "none") => ui.kpi.doc_count = DocCountExpected

\* C3 amended: on every render of a non-empty summary set the document-count
\* KPI (the tenth metric) is the number of detail rows when detail is
\* non-empty, else the number of summary rows; an empty summary set shows
\* ten placeholder metrics and no document count.
C3_DocCount ==
    (ui.rendered /\ ui.error = "none") =>
        /\ ~IsEmpty(resumen) =>
              /\ ui.kpi.shown
              /\ ui.kpi.doc_count = DocCountExpected
              /\ ui.kpi.values[Len(ui.kpi.values)] = DocCountExpected
        /\ IsEmpty(resumen) => ~ui.kpi.shown

C3_Witness ==
    /\ KpiShown
    /\ detalle.rows = <<>>
    /\ Len(resumen.rows) = MaxRows
    /\ ui.kpi.doc_count = MaxRows

\* C4: the ranking keeps at most 20 providers, each with the sum of its
\* Total, ordered by the absolute value of that sum, descending, and every
\* presented value is non-negative.
C4_AbsoluteRanking ==
    (ui.rendered /\ ui.error = "none" /\ ~IsEmpty(resumen)) =>
        /\ Len(ui.top) <= TopN
        /\ \A i \in DOMAIN ui.top :
              /\ ui.top[i].Total >= 0
              /\ \E j \in DOMAIN resumen.rows :
                    resumen.rows[j]["Proveedor_Nombre"].v = ui.top[i].Proveedor_Nombre
        /\ \A i, j \in DOMAIN ui.top :
              i < j => Abs(ui.top[i].Total) >= Abs(ui.top[j].Total)

DocsOf(rows) == {rows[i]["Nro_Documento"].v : i \in DOMAIN rows}

\* the documents of the detail set the selection asks for
SelectedDocs ==
    IF sel \in {"(all)", "unset"} THEN DocsOf(detalle.rows)
    ELSE {detalle.rows[i]["Nro_Documento"].v :
             i \in {j \in DOMAIN detalle.rows : detalle.rows[j]["bucket"] = sel}}

C6_NoPool ==
    /\ (config.DB_HOST = "" \/ config.DB_NAME = "") => ~pool.created
    /\ (ui.rendered /\ ~pool.created) =>
          /\ resumen = EmptyDataFrame
          /\ detalle = EmptyDataFrame
          /\ ~attempted
          /\ ui.error = "none"
          /\ ui.info
          /\ ui.warning

C6_Witness ==
    /\ ui.rendered
    /\ config.DB_HOST # ""
    /\ config.DB_NAME = ""
    /\ ui.info
    /\ ~attempted

\* the frame with every missing cell replaced by the number 0
FillZero(df) ==
    [df EXCEPT !.rows =
        [i \in DOMAIN df.rows |->
            [c \in DOMAIN df.rows[i] |->
                IF c \in KpiCols /\ df.rows[i][c].isna THEN Num(0) ELSE df.rows[i][c]]]]

C7_WitnessColumn ==
    /\ KpiShown
    /\ Len(resumen.rows) >= 2
    /\ \E c \in Range(buckets_order) : ~IsNumericCol(resumen, c)

\* C10: the summary download is offered whenever the summary set is
\* non-empty, the detail download whenever the detail set is non-empty, each
\* with exactly the rows of its set.
C10_IndependentDownloads ==
    (ui.rendered /\ ui.error = "none" /\ sel = "unset") =>
        /\ ui.dl_resumen.offered = ~IsEmpty(resumen)
        /\ ui.dl_detalle.offered = ~IsEmpty(detalle)
        /\ ui.dl_resumen.offered => Len(ui.dl_resumen.csv.lines) = Len(resumen.rows)
        /\ ui.dl_detalle.offered => Len(ui.dl_detalle.csv.lines) = Len(detalle.rows)

(***************************************************************************)
(* run_query under concurrent sessions (app.py:133-142): the cache lookup  *)
(* of st.cache_data, then the body in two steps, before and after read_sql.*)
(***************************************************************************)
\* a connection that is never given back
close_never(p) == p

\* cnx.close() in the finally clause (app.py:141-142)
close(p) == [p EXCEPT !.in_use = @ - 1]

\* a call finds a live entry: the cached snapshot is returned, the body not run
CacheHit(k) ==
    /\ Valid(cache[CacheKey(k)], now)
    /\ lastRet' = [kind |-> "hit", key |-> k, snapshot |-> cache[CacheKey(k)].snapshot,
                   age |-> now - cache[CacheKey(k)].snapshot.at]
    /\ UNCHANGED <<config, pool, attempted, resumen, detalle, sel, ui, now, cache, inflight>>

\* a miss without a pool: the empty frame is returned and stored (app.py:135-136)
MissNoPool(k) ==
    /\ ~Valid(cache[CacheKey(k)], now)
    /\ ~pool.created
    /\ LET snap == [key |-> k, at |-> now, df |-> "empty"]
       IN /\ cache' = [cache EXCEPT ![CacheKey(k)] = [present |-> TRUE, snapshot |-> snap]]
          /\ lastRet' = [kind |-> "empty", key |-> k, snapshot |-> snap, age |-> 0]
    /\ UNCHANGED <<config, pool, attempted, resumen, detalle, sel, ui, now, inflight>>

\* a miss with a pool: pool.get_connection() hands out a connection (app.py:137)
GetConnection(k) ==
    /\ ~Valid(cache[CacheKey(k)], now)
    /\ pool.created
    /\ InFlight < NumSessions
    /\ pool.in_use < pool_size
    /\ pool' = [pool EXCEPT !.in_use = @ + 1]
    /\ attempted' = TRUE
    /\ inflight' = [inflight EXCEPT ![k] = @ + 1]
    /\ UNCHANGED <<config, resumen, detalle, sel, ui, now, cache, lastRet>>

\* a miss with every connection out: get_connection raises PoolError, before
\* the try block; the exception leaves run_query (app.py:137)
PoolExhausted(k) ==
    /\ ~Valid(cache[CacheKey(k)], now)
    /\ pool.created
    /\ InFlight < NumSessions
    /\ pool.in_use >= pool_size
    /\ attempted' = TRUE
    /\ lastRet' = [kind |-> "PoolError", key |-> k, snapshot |-> NoSnapshot, age |-> 0]
    /\ UNCHANGED <<config, pool, resumen, detalle, sel, ui, now, cache, inflight>>

\* read_sql returns: the connection is closed, the frame returned and stored
\* by the cache (app.py:139-142)
QueryReturns(k) ==
    /\ inflight[k] > 0
    /\ pool' = close(pool)
    /\ inflight' = [inflight EXCEPT ![k] = @ - 1]
    /\ LET snap == [key |-> k, at |-> now, df |-> "rows"]
       IN /\ cache' = [cache EXCEPT ![CacheKey(k)] = [present |-> TRUE, snapshot |-> snap]]
          /\ lastRet' = [kind |-> "miss", key |-> k, snapshot |-> snap, age |-> 0]
    /\ UNCHANGED <<config, attempted, resumen, detalle, sel, ui, now>>

\* read_sql raises: the connection is closed and the exception leaves
\* run_query; nothing is stored, nothing is tried again (app.py:138-142)
QueryRaises(k) ==
    /\ inflight[k] > 0
    /\ pool' = close(pool)
    /\ inflight' = [inflight EXCEPT ![k] = @ - 1]
    /\ lastRet' = [kind |-> "DatabaseError", key |-> k, snapshot |-> NoSnapshot, age |-> 0]
    /\ UNCHANGED <<config, attempted, resumen, detalle, sel, ui, now, cache>>

\* time passes
Tick ==
    /\ \E d \in {100, 200} :
          /\ now + d <= MaxClock
          /\ now' = now + d
    /\ UNCHANGED <<config, pool, attempted, resumen, detalle, sel, ui, cache, inflight, lastRet>>

QueryNext ==
    \/ \E k \in QueryKeys : CacheHit(k)
    \/ \E k \in QueryKeys : MissNoPool(k)
    \/ \E k \in QueryKeys : GetConnection(k)
    \/ \E k \in QueryKeys : PoolExhausted(k)
    \/ \E k \in QueryKeys : QueryReturns(k)
    \/ \E k \in QueryKeys : QueryRaises(k)
    \/ Tick

QuerySpec == Init /\ [][QueryNext]_vars

(***************************************************************************)
(* Properties of run_query under concurrent sessions.                      *)
(***************************************************************************)
\* C8: while an entry of a key is within its 300 s window no body of
\* run_query starts for that key and a call made then, from whatever session,
\* returns the snapshot of that entry, leaving cache and pool alone; a
\* returned snapshot was fetched for the key of the call, and never more than
\* one window before the call.
C8_Memoized ==
    [][/\ \A k \in QueryKeys :
             Valid(cache[CacheKey(k)], now) =>
                 /\ inflight'[k] <= inflight[k]
                 /\ (lastRet' # lastRet /\ lastRet'.key = k /\ inflight' = inflight) =>
                        /\ lastRet'.kind = "hit"
                        /\ lastRet'.snapshot = cache[CacheKey(k)].snapshot
                        /\ cache' = cache
                        /\ pool' = pool
       /\ lastRet'.kind \in {"hit", "miss", "empty"} =>
             /\ lastRet'.snapshot.key = lastRet'.key
             /\ lastRet'.age < ttl
       /\ (lastRet' # lastRet /\ lastRet'.kind = "hit") =>
             lastRet'.age = now - cache[CacheKey(lastRet'.key)].snapshot.at
      ]_vars

C8_Witness ==
    /\ lastRet.kind = "hit"
    /\ lastRet.age > 0
    /\ \A k \in QueryKeys : cache[CacheKey(k)].present
    /\ \E k1, k2 \in QueryKeys :
          cache[CacheKey(k1)].snapshot.at # cache[CacheKey(k2)].snapshot.at
    /\ now > ttl

\* C9: every connection taken is given back on return and on exception: the
\* connections out are exactly the queries in flight, never more than 5,
\* and none when no query is in flight; a failed query stores nothing.
C9_PoolBalanced ==
    /\ pool.in_use = InFlight
    /\ pool.in_use <= pool_size
    /\ pool.in_use >= 0
    /\ InFlight = 0 => pool.in_use = 0
    /\ lastRet.kind \in {"DatabaseError", "PoolError"} => lastRet.snapshot = NoSnapshot

C9_Witness ==
    /\ lastRet.kind = "DatabaseError"
    /\ pool.in_use = pool_size - 1
    /\ \A k \in QueryKeys : ~cache[CacheKey(k)].present

====
